---- MODULE Spec2Model ----
(***************************************************************************)
(* gherkin2robotframework: the translation of parsed Gherkin features into *)
(* a Robot Framework script and its step-definition resource, and the      *)
(* reconciliation of the steps of a feature against an existing resource.  *)
(*                                                                         *)
(* A Python str is a sequence of one-character strings, so that replace,   *)
(* strip, split, startswith, lower, re.sub and re.match are computed on    *)
(* the characters.  A text file is the sequence of its lines.  A Python    *)
(* value that may be None is a sequence of length 0 (None) or 1.           *)
(***************************************************************************)
EXTENDS Naturals, Sequences, FiniteSets, TLC

\* ---------------------------------------------------------------- bounds

\* Feature files handed to one run of the tool (the list of process_directory).
MaxFiles == 2
\* Calls of datetime.now() over all runs; every translated file takes two.
MaxClock == 4

\* ------------------------------------------------------------ str helpers

NL == "\n"
Whitespace == {" ", "\t", "\n", "\r"}
Digits == {"0","1","2","3","4","5","6","7","8","9"}
LowerLetters == <<"a","b","c","d","e","f","g","h","i","j","k","l","m","n","o","p","q","r","s","t","u","v","w","x","y","z">>
UpperLetters == <<"A","B","C","D","E","F","G","H","I","J","K","L","M","N","O","P","Q","R","S","T","U","V","W","X","Y","Z">>
Letters == {LowerLetters[i] : i \in 1..26} \cup {UpperLetters[i] : i \in 1..26}
\* [a-zA-Z0-9]
AlNum == Letters \cup Digits
\* [0-9a-zA-Z_]
WordChars == AlNum \cup {"_"}

None == <<>>
Some(v) == <<v>>
\* Python truthiness of a value that is None or a str.
Truthy(v) == v # None /\ v[1] # <<>>

startswith(s, p) == Len(s) >= Len(p) /\ SubSeq(s, 1, Len(p)) = p

\* s[i:] (i counted from 1)
From(s, i) == SubSeq(s, i, Len(s))

RECURSIVE lstrip(_)
lstrip(s) == IF s # <<>> /\ Head(s) \in Whitespace THEN lstrip(Tail(s)) ELSE s

RECURSIVE rstrip(_)
rstrip(s) ==
    IF s # <<>> /\ s[Len(s)] \in Whitespace THEN rstrip(SubSeq(s, 1, Len(s) - 1)) ELSE s

strip(s) == rstrip(lstrip(s))

\* str.replace(old, new), old not empty: every occurrence, left to right.
RECURSIVE replace(_, _, _)
replace(s, old, new) ==
    IF s = <<>> THEN <<>>
    ELSE IF startswith(s, old) THEN new \o replace(From(s, Len(old) + 1), old, new)
    ELSE <<Head(s)>> \o replace(Tail(s), old, new)

lower_char(c) ==
    IF \E i \in 1..26 : UpperLetters[i] = c
    THEN LowerLetters[CHOOSE i \in 1..26 : UpperLetters[i] = c]
    ELSE c

lower(s) == [i \in 1..Len(s) |-> lower_char(s[i])]

\* str.split(sep) for a one-character sep: never an empty list.
RECURSIVE split(_, _)
split(s, sep) ==
    IF \E i \in 1..Len(s) : s[i] = sep
    THEN LET i == CHOOSE k \in 1..Len(s) : s[k] = sep /\ \A j \in 1..(k - 1) : s[j] # sep
         IN  <<SubSeq(s, 1, i - 1)>> \o split(From(s, i + 1), sep)
    ELSE <<s>>

\* sep.join(fields)
RECURSIVE join(_, _)
join(fields, sep) ==
    IF fields = <<>> THEN <<>>
    ELSE IF Len(fields) = 1 THEN fields[1]
    ELSE fields[1] \o sep \o join(Tail(fields), sep)

\* str(n) for n >= 0
DigitSeq == <<"0","1","2","3","4","5","6","7","8","9">>
RECURSIVE str_int(_)
str_int(n) == IF n < 10 THEN <<DigitSeq[n + 1]>> ELSE str_int(n \div 10) \o <<DigitSeq[(n % 10) + 1]>>

Range(s) == {s[i] : i \in 1..Len(s)}

\* --------------------------------------------------------------- re

\* Length of the longest run of characters of class cls at the start of s.
RECURSIVE run_length(_, _)
run_length(s, cls) == IF s # <<>> /\ Head(s) \in cls THEN 1 + run_length(Tail(s), cls) ELSE 0

\* re.findall('<([a-zA-Z0-9]+)>', text): the captured names, in order.
RECURSIVE findall_variables(_)
findall_variables(text) ==
    IF text = <<>> THEN <<>>
    ELSE IF Head(text) = "<"
         THEN LET n == run_length(Tail(text), AlNum)
              IN  IF n > 0 /\ Len(text) >= n + 2 /\ text[n + 2] = ">"
                  THEN <<SubSeq(text, 2, n + 1)>> \o findall_variables(From(text, n + 3))
                  ELSE findall_variables(Tail(text))
         ELSE findall_variables(Tail(text))

WILDCARD == <<"(",".","*",")">>

\* re.sub(r'\$\{[0-9a-zA-Z_]+\}', '(.*)', keyword)
RECURSIVE sub_placeholders(_)
sub_placeholders(keyword) ==
    IF keyword = <<>> THEN <<>>
    ELSE IF startswith(keyword, <<"$","{">>)
         THEN LET n == run_length(From(keyword, 3), WordChars)
              IN  IF n > 0 /\ Len(keyword) >= n + 3 /\ keyword[n + 3] = "}"
                  THEN WILDCARD \o sub_placeholders(From(keyword, n + 4))
                  ELSE <<Head(keyword)>> \o sub_placeholders(Tail(keyword))
         ELSE <<Head(keyword)>> \o sub_placeholders(Tail(keyword))

\* re.match(re.compile(pattern), text) is not None, for a pattern built of
\* literal characters, '.' and the group '(.*)': the pattern is matched at
\* the start of text and need not reach its end; '.' is any character but
\* a newline.
RECURSIVE re_match_at(_, _, _, _)
re_match_at(pattern, i, text, j) ==
    IF i > Len(pattern) THEN TRUE
    ELSE IF startswith(From(pattern, i), WILDCARD)
         THEN \E k \in j..(Len(text) + 1) :
                  /\ \A m \in j..(k - 1) : text[m] # NL
                  /\ re_match_at(pattern, i + 4, text, k)
    ELSE IF pattern[i] = "."
         THEN j <= Len(text) /\ text[j] # NL /\ re_match_at(pattern, i + 1, text, j + 1)
    ELSE j <= Len(text) /\ text[j] = pattern[i] /\ re_match_at(pattern, i + 1, text, j + 1)

re_match(pattern, text) == re_match_at(pattern, 1, text, 1)

\* ------------------------------------------------------ translation
\* The package's translation module (get_language, set_language, tr) is
\* imported by __main__.py and is not part of the sources at hand: it is
\* modelled from its documented interface, tr(key, default) giving the
\* literal of the active language and the default when there is none.

DefaultLanguage == <<"e","n">>

English ==
    [settings_section  |-> <<"*","*","*"," ","S","e","t","t","i","n","g","s"," ","*","*","*">>,
     testcases_section |-> <<"*","*","*"," ","T","e","s","t"," ","C","a","s","e","s"," ","*","*","*">>,
     keywords_section  |-> <<"*","*","*"," ","K","e","y","w","o","r","d","s"," ","*","*","*">>,
     resource          |-> <<"R","e","s","o","u","r","c","e">>,
     metadata          |-> <<"M","e","t","a","d","a","t","a">>,
     documentation     |-> <<"D","o","c","u","m","e","n","t","a","t","i","o","n">>,
     library           |-> <<"L","i","b","r","a","r","y">>,
     testtags          |-> <<"T","e","s","t"," ","T","a","g","s">>,
     arguments         |-> <<"A","r","g","u","m","e","n","t","s">>,
     tags              |-> <<"T","a","g","s">>,
     template          |-> <<"T","e","m","p","l","a","t","e">>,
     background        |-> <<"B","a","c","k","g","r","o","u","n","d">>,
     scenario          |-> <<"S","c","e","n","a","r","i","o",",","E","x","a","m","p","l","e">>,
     scenariooutline   |-> <<"S","c","e","n","a","r","i","o"," ","O","u","t","l","i","n","e">>]

Dutch ==
    [settings_section  |-> <<"*","*","*"," ","I","n","s","t","e","l","l","i","n","g","e","n"," ","*","*","*">>,
     testcases_section |-> <<"*","*","*"," ","T","e","s","t","g","e","v","a","l","l","e","n"," ","*","*","*">>,
     keywords_section  |-> <<"*","*","*"," ","S","l","e","u","t","e","l","w","o","o","r","d","e","n"," ","*","*","*">>,
     resource          |-> <<"R","e","s","o","u","r","c","e">>,
     metadata          |-> <<"M","e","t","a","d","a","t","a">>,
     documentation     |-> <<"D","o","c","u","m","e","n","t","a","t","i","e">>,
     library           |-> <<"B","i","b","l","i","o","t","h","e","e","k">>,
     testtags          |-> <<"T","e","s","t"," ","L","a","b","e","l","s">>,
     arguments         |-> <<"P","a","r","a","m","e","t","e","r","s">>,
     tags              |-> <<"L","a","b","e","l","s">>,
     template          |-> <<"S","j","a","b","l","o","o","n">>,
     background        |-> <<"A","c","h","t","e","r","g","r","o","n","d">>,
     scenario          |-> <<"S","c","e","n","a","r","i","o",",","V","o","o","r","b","e","e","l","d">>,
     scenariooutline   |-> <<"A","b","s","t","r","a","c","t"," ","S","c","e","n","a","r","i","o",",","S","c","e","n","a","r","i","o"," ","O","u","t","l","i","n","e">>]

\* The step verbs that have a translation, per language.
Verbs(lang) ==
    IF lang = <<"n","l">>
    THEN {<<<<"G","e","g","e","v","e","n"," ">>, <<"S","t","e","l"," ">>>>, <<<<"A","l","s"," ">>, <<"A","l","s"," ">>>>, <<<<"D","a","n"," ">>, <<"D","a","n"," ">>>>}
    ELSE {}

tr(lang, key) == IF lang = <<"n","l">> THEN Dutch[key] ELSE English[key]

\* tr(key, default) as add_step calls it, on a step's verb.
tr_default(lang, key, default) ==
    IF \E p \in Verbs(lang) : p[1] = key
    THEN (CHOOSE p \in Verbs(lang) : p[1] = key)[2]
    ELSE default

\* ------------------------------------------------------------ lines
\* A line of a section is a str or a list of fields.

Txt(s) == [list |-> FALSE, fields |-> <<s>>]
Fld(fields) == [list |-> TRUE, fields |-> fields]

FIELD_SEP == <<" "," "," "," ">>

\* What write_to_script(outfile, line) appends to the file: the lines of
\* the text it writes, which ends in a newline.
write_to_script(line) ==
    IF line.list THEN split(join(line.fields, FIELD_SEP), NL)
    ELSE split(line.fields[1], NL)

RECURSIVE write_lines(_)
write_lines(lines) ==
    IF lines = <<>> THEN <<>> ELSE write_to_script(Head(lines)) \o write_lines(Tail(lines))

\* ------------------------------------------------- step registry (dict)
\* seen_steps keeps its keys in insertion order.

has_key(seen, k) == \E i \in 1..Len(seen) : seen[i].key = k
Keys(seen) == {seen[i].key : i \in 1..Len(seen)}
ArgOf(seen, k) == (CHOOSE e \in Range(seen) : e.key = k).arg

\* ------------------------------------------------- table transformer

process_docstring(docstring) ==
    LET content == split(docstring.content, NL)
    IN  [lines |-> <<Fld(<<<<>>, <<"$","{","D","o","c","S","t","r","i","n","g","}","=">>, <<"C","a","t","e","n","a","t","e">>, <<"S","E","P","A","R","A","T","O","R","=","\\","n">>>>)>> \o
                   [i \in 1..Len(content) |->
                       IF content[i] # <<>> THEN Fld(<<<<>>, <<".",".",".">>, content[i]>>)
                       ELSE Fld(<<<<>>, <<".",".",".">>, <<"$","{","E","M","P","T","Y","}">>>>)],
         var   |-> <<"$","{","D","o","c","S","t","r","i","n","g","}">>]

process_datatable_rows(datatable) ==
    [r \in 1..Len(datatable) |->
        [c \in 1..Len(datatable[r].cells) |-> datatable[r].cells[c].value]]

generate_datatable_as_list_of_dict(dt) ==
    LET cols == dt[1]
        for  == Fld(<<<<>>, <<"F","O","R">>>> \o [c \in 1..Len(cols) |-> <<"$","{">> \o cols[c] \o <<"}">>] \o <<<<"I","N">>>>)
        rows == [r \in 1..(Len(dt) - 1) |-> Fld(<<<<>>, <<".",".",".">>>> \o dt[r + 1])]
        dict == Fld(<<<<>>, <<>>, <<"$","{","e","n","t","r","y","}","=">>, <<"C","r","e","a","t","e"," ","D","i","c","t","i","o","n","a","r","y">>>> \o
                    [c \in 1..Len(cols) |-> cols[c] \o <<"=","$","{">> \o cols[c] \o <<"}">>])
    IN  [lines |-> <<Fld(<<<<>>, <<"$","{","D","a","t","a","T","a","b","l","e","}","=">>, <<"C","r","e","a","t","e"," ","L","i","s","t">>>>), for>> \o rows \o
                   <<dict,
                     Fld(<<<<>>, <<>>, <<"A","p","p","e","n","d"," ","T","o"," ","L","i","s","t">>, <<"$","{","D","a","t","a","T","a","b","l","e","}">>, <<"$","{","e","n","t","r","y","}">>>>),
                     Fld(<<<<>>, <<"E","N","D">>>>)>>,
         var   |-> <<"@","{","D","a","t","a","T","a","b","l","e","}">>]

process_datatable(datatable) ==
    generate_datatable_as_list_of_dict(process_datatable_rows(datatable.rows))

\* ------------------------------------------------------ step renderer

\* A registry keyed by the call of the step, verb included.
resource_keyword_with_verb(step, text, keyword) == keyword

\* The key under which add_step registers a step: its text, whatever the
\* step's verb.
resource_keyword_of(step, text, keyword) == text

\* What the tables of a step append, and the variable they leave.
step_argument(step) ==
    IF "docString" \in DOMAIN step
    THEN [process_docstring(step.docString) EXCEPT !.var = Some(@)]
    ELSE IF "dataTable" \in DOMAIN step
    THEN [process_datatable(step.dataTable) EXCEPT !.var = Some(@)]
    ELSE [lines |-> <<>>, var |-> None]

step_text(step) == replace(replace(step.text, <<"<">>, <<"$","{">>), <<">">>, <<"}">>)

\* The keyword of the call a step becomes.
step_keyword(lang, step) ==
    IF step.keyword = <<"*"," ">> THEN step_text(step)
    ELSE tr_default(lang, step.keyword, step.keyword) \o step_text(step)

\* seen_steps after add_step has registered a step.
register(seen, resource_keyword, argument_variable) ==
    IF has_key(seen, resource_keyword) THEN seen
    ELSE Append(seen, [key |-> resource_keyword, arg |-> argument_variable])

step_call(keyword, argument_variable) ==
    IF Truthy(argument_variable) THEN Fld(<<<<>>, keyword, argument_variable[1]>>)
    ELSE Fld(<<<<>>, keyword>>)

add_step(ctx, output, step) ==
    [ctx EXCEPT
        ![output] = @ \o step_argument(step).lines
                      \o <<step_call(step_keyword(ctx.language, step), step_argument(step).var)>>,
        !.seen_steps = register(@, resource_keyword_of(step, step_text(step),
                                                       step_keyword(ctx.language, step)),
                                step_argument(step).var)]

RECURSIVE add_steps(_, _, _)
add_steps(ctx, output, steps) ==
    IF steps = <<>> THEN ctx ELSE add_steps(add_step(ctx, output, Head(steps)), output, Tail(steps))

\* -------------------------------------------------- feature translator
\* The module's globals are the fields of a record ctx (settings_lines,
\* test_cases_lines, keywords_lines, seen_steps, background_available,
\* language); ctx.error is the exception that ended the walk, "" if none.

Bracket(s) == <<"[">> \o s \o <<"]">>

\* output.append(line), for each of the lines in turn
append(ctx, output, lines) == [ctx EXCEPT ![output] = @ \o lines]

raise(ctx, exception) == [ctx EXCEPT !.error = exception]

tags_line(lang, tags) ==
    Fld(<<<<>>, Bracket(tr(lang, "tags"))>> \o [i \in 1..Len(tags) |-> From(tags[i].name, 2)])

process_tags(ctx, tags) == append(ctx, "test_cases_lines", <<tags_line(ctx.language, tags)>>)

\* The lines _add_test_case_documentation and _add_keyword_documentation
\* append for a description.
documentation_lines(lang, description) ==
    IF description = <<>> THEN <<>>
    ELSE <<Fld(<<<<>>, Bracket(tr(lang, "documentation")), split(strip(description), NL)[1]>>)>> \o
         [i \in 1..(Len(split(strip(description), NL)) - 1) |->
             Fld(<<<<>>, <<".",".",".">>, strip(split(strip(description), NL)[i + 1])>>)]

\* The documentation of a node that may have a description.
described(lang, node) ==
    IF "description" \in DOMAIN node THEN documentation_lines(lang, node.description) ELSE <<>>

\* The call of the background's keyword, if a background was seen.
background_call(ctx) ==
    IF ctx.background_available THEN <<Fld(<<<<>>, tr(ctx.language, "background")>>)>> ELSE <<>>

process_background(ctx, background) ==
    append(
        add_steps(
            append([ctx EXCEPT !.background_available = TRUE], "keywords_lines",
                   <<Txt(tr(ctx.language, "background"))>> \o
                   (IF background.name # <<>>
                    THEN <<Fld(<<<<>>, Bracket(tr(ctx.language, "documentation")), background.name>>)>>
                    ELSE <<>>)),
            "keywords_lines", background.steps),
        "keywords_lines", <<Txt(<<>>)>>)

process_scenario_plain(ctx, scenario) ==
    append(
        add_steps(
            append(ctx, "test_cases_lines",
                   <<Txt(scenario.name)>> \o
                   described(ctx.language, scenario) \o
                   (IF scenario.tags # <<>> THEN <<tags_line(ctx.language, scenario.tags)>> ELSE <<>>) \o
                   background_call(ctx)),
            "test_cases_lines", scenario.steps),
        "test_cases_lines", <<Txt(<<>>)>>)

make_empty(x) == IF x = <<>> THEN <<"$","{","E","M","P","T","Y","}">> ELSE x

\* The placeholders of the steps of an outline: set(variables).
outline_variables(steps) ==
    UNION {Range(findall_variables(steps[i].text)) : i \in 1..Len(steps)}

\* The name process_scenario_outline computes for the test case of an
\* examples block.
test_case_name(scenario, example) ==
    IF example.name # <<>> THEN scenario.name \o <<":"," ">> \o example.name
    ELSE scenario.name \o <<" ","e","x","a","m","p","l","e"," ","l","i","n","e"," ">> \o str_int(example.location.line)

\* What the loop over the examples appends for that name: the append is
\* commented out, the name is computed and dropped.
test_case_name_lines(scenario, example) == <<>>

\* The name of the keyword an outline's test cases are templated on.
template_name(lang, scenario) ==
    split(tr(lang, "scenariooutline"), ",")[1] \o <<" ">> \o scenario.name

example_header(example) ==
    [i \in 1..Len(example.tableHeader.cells) |-> example.tableHeader.cells[i].value]

\* header_col[v]: the column of the last header cell holding v.
header_col(header, v) ==
    CHOOSE i \in 1..Len(header) : header[i] = v /\ \A j \in (i + 1)..Len(header) : header[j] # v

\* The data rows appended for an examples block.
example_rows(example, header) ==
    [r \in 1..Len(example.tableBody) |->
        Fld(<<<<>>>> \o
            [a \in 1..Len(header) |->
                make_empty(example.tableBody[r].cells[header_col(header, header[a])].value)])]

\* What one turn of the loop appends before it checks the header.
example_head_lines(lang, scenario, example) ==
    test_case_name_lines(scenario, example) \o
    described(lang, example) \o
    (IF scenario.tags \o example.tags # <<>>
     THEN <<tags_line(lang, scenario.tags \o example.tags)>> ELSE <<>>) \o
    <<Fld(<<<<>>, Bracket(tr(lang, "template")), template_name(lang, scenario)>>)>>

\* One turn of the loop over scenario['examples'].
process_example(ctx, scenario, variables, example) ==
    IF \E v \in variables : v \notin Range(example_header(example))
    THEN raise(append(ctx, "test_cases_lines",
                      example_head_lines(ctx.language, scenario, example)),
               "RuntimeWarning")
    ELSE append(ctx, "test_cases_lines",
                example_head_lines(ctx.language, scenario, example) \o
                example_rows(example, example_header(example)) \o
                <<Txt(<<>>)>>)

RECURSIVE process_examples(_, _, _, _)
process_examples(ctx, scenario, variables, examples) ==
    IF examples = <<>> \/ ctx.error # "" THEN ctx
    ELSE process_examples(process_example(ctx, scenario, variables, Head(examples)),
                          scenario, variables, Tail(examples))

\* The header whose columns become the arguments of the outline's keyword:
\* the value the variable header holds when the loop over the examples has
\* ended, the header of the last examples block.
arguments_header(examples) == example_header(examples[Len(examples)])

arguments_line(lang, header) ==
    Fld(<<<<>>, Bracket(tr(lang, "arguments"))>> \o
        [a \in 1..Len(header) |-> <<"$","{">> \o header[a] \o <<"}">>])

\* The part of process_scenario_outline after the loop: the keyword the
\* test cases are templated on.
test_template(ctx, scenario) ==
    IF ctx.error # "" THEN ctx
    ELSE IF scenario.examples = <<>>
    THEN raise(append(ctx, "keywords_lines",
                      <<Txt(template_name(ctx.language, scenario))>> \o
                      described(ctx.language, scenario)),
               "UnboundLocalError")
    ELSE append(
             add_steps(
                 append(ctx, "keywords_lines",
                        <<Txt(template_name(ctx.language, scenario))>> \o
                        described(ctx.language, scenario) \o
                        <<arguments_line(ctx.language, arguments_header(scenario.examples))>> \o
                        background_call(ctx)),
                 "keywords_lines", scenario.steps),
             "keywords_lines", <<Txt(<<>>)>>)

process_scenario_outline(ctx, scenario) ==
    test_template(
        process_examples(ctx, scenario, outline_variables(scenario.steps), scenario.examples),
        scenario)

process_scenario(ctx, scenario) ==
    IF scenario.keyword \in {<<"S","c","e","n","a","r","i","o">>} \cup Range(split(tr(ctx.language, "scenario"), ","))
    THEN process_scenario_plain(ctx, scenario)
    ELSE IF scenario.keyword \in
                {<<"S","c","e","n","a","r","i","o"," ","O","u","t","l","i","n","e">>} \cup Range(split(tr(ctx.language, "scenariooutline"), ","))
    THEN process_scenario_outline(ctx, scenario)
    ELSE raise(ctx, "RuntimeError")

process_child(ctx, child) ==
    IF "background" \in DOMAIN child THEN process_background(ctx, child.background)
    ELSE IF "scenario" \in DOMAIN child THEN process_scenario(ctx, child.scenario)
    ELSE raise(ctx, "RuntimeError")

RECURSIVE process_children(_, _)
process_children(ctx, children) ==
    IF children = <<>> \/ ctx.error # "" THEN ctx
    ELSE process_children(process_child(ctx, Head(children)), Tail(children))

\* set_language(feature['language']) of the translation module.
set_language(ctx, language) == [ctx EXCEPT !.language = language]

\* The Settings lines of a feature: its documentation and its tags.
feature_settings(ctx, feature) ==
    append(ctx, "settings_lines",
           (IF "description" \in DOMAIN feature
            THEN <<Fld(<<tr(ctx.language, "documentation"),
                         split(strip(feature.description), NL)[1]>>)>> \o
                 [i \in 1..(Len(split(strip(feature.description), NL)) - 1) |->
                     Fld(<<<<".",".",".">>, split(strip(feature.description), NL)[i + 1]>>)]
            ELSE <<>>) \o
           (IF feature.tags # <<>>
            THEN <<Fld(<<tr(ctx.language, "testtags")>> \o
                       [i \in 1..Len(feature.tags) |-> From(feature.tags[i].name, 2)])>>
            ELSE <<>>))

process_feature(ctx, feature) ==
    process_children(
        feature_settings(
            IF "language" \in DOMAIN feature
            THEN set_language([ctx EXCEPT !.background_available = FALSE], feature.language)
            ELSE [ctx EXCEPT !.background_available = FALSE],
            feature),
        feature.children)

\* ------------------------------------------------------------ files
\* The file system maps a path to the lines of the file, if it exists.  It
\* holds no feature.settings and no resource.settings file, so that
\* apply_feature_settings and apply_resource_settings write nothing.

NoFile == [exists |-> FALSE, lines |-> <<>>]
File(lines) == [exists |-> TRUE, lines |-> lines]

\* os.path.join(a, b)
os_path_join(a, b) ==
    IF startswith(b, <<"/">>) THEN b
    ELSE IF a = <<>> \/ a[Len(a)] = "/" THEN a \o b
    ELSE a \o <<"/">> \o b

\* os.path.dirname(p) of an absolute path below the root
RECURSIVE os_path_dirname(_)
os_path_dirname(p) ==
    IF p = <<>> THEN <<>>
    ELSE IF p[Len(p)] = "/" THEN (IF Len(p) = 1 THEN p ELSE SubSeq(p, 1, Len(p) - 1))
    ELSE os_path_dirname(SubSeq(p, 1, Len(p) - 1))

\* datetime.now().isoformat() at the clock's n-th tick
isoformat(n) == <<"T">> \o str_int(n)

generated_by(n) == <<"_","g","h","e","r","k","i","n","2","r","o","b","o","t","f","r","a","m","e","w","o","r","k"," ","o","n"," ">> \o isoformat(n) \o <<"_">>

language_header(lang) ==
    IF lang # <<"e","n">> THEN <<Txt(<<"L","a","n","g","u","a","g","e",":"," ">> \o lang \o <<"\n">>)>> ELSE <<>>

\* ------------------------------------------------- resource reconciler

step_definitions_resource_name(feature_name) ==
    replace(lower(feature_name \o <<"_","s","t","e","p","_","d","e","f","i","n","i","t","i","o","n","s",".","r","e","s","o","u","r","c","e">>), <<" ">>, <<"_">>)

script_name(feature_name) == replace(lower(feature_name), <<" ">>, <<"_">>) \o <<".","r","o","b","o","t">>

\* The keywords of the Keywords section of a resource file, each with the
\* regular expression made of it.
RECURSIVE read_keywords(_, _, _)
read_keywords(lines, in_keywords, lang) ==
    IF lines = <<>> THEN <<>>
    ELSE LET line == Head(lines)
         IN  IF strip(line) = <<>> THEN read_keywords(Tail(lines), in_keywords, lang)
             ELSE IF in_keywords
             THEN (IF ~startswith(line, <<" ">>) /\ ~startswith(line, <<"\t">>)
                   THEN <<[keyword |-> strip(line), regex |-> sub_placeholders(strip(line))]>>
                   ELSE <<>>) \o read_keywords(Tail(lines), TRUE, lang)
             ELSE read_keywords(Tail(lines),
                                startswith(line, <<"*","*","*"," ","K","e","y","w","o","r","d","s"," ","*","*","*">>)
                                    \/ startswith(line, tr(lang, "keywords_section")),
                                lang)

read_keywords_from_resource(file, lang) == read_keywords(file.lines, FALSE, lang)

\* A reconciler that compares the texts and never matches a pattern.
keyword_found_exact(keyword, keyword_tuple) == keyword = keyword_tuple.keyword

\* ff of generate_robot_script_resource for one existing keyword.
keyword_found(keyword, keyword_tuple) ==
    \/ keyword = keyword_tuple.keyword
    \/ re_match(keyword_tuple.regex, keyword)

\* ff after the loop over the existing keywords.
implemented(keyword, kw) == \E i \in 1..Len(kw) : keyword_found(keyword, kw[i])

\* The steps of the registry no existing keyword implements, in order.
RECURSIVE missing_steps(_, _)
missing_steps(seen, kw) ==
    IF seen = <<>> THEN <<>>
    ELSE (IF implemented(Head(seen).key, kw) THEN <<>> ELSE <<Head(seen)>>)
         \o missing_steps(Tail(seen), kw)

fail_line(k) == Fld(<<<<>>, <<"F","a","i","l">>, <<"K","e","y","w","o","r","d"," ","\"">> \o k \o <<"\""," ","N","o","t"," ","I","m","p","l","e","m","e","n","t","e","d"," ","Y","e","t">>>>)

\* A stub that declares no arguments.
stub_without_arguments(lang, entry) == <<Txt(entry.key), fail_line(entry.key)>>

\* The stub of one registry entry: its name, its arguments, its body.
stub(lang, entry) ==
    <<Txt(entry.key)>> \o
    (IF Truthy(entry.arg) THEN <<Fld(<<<<>>, Bracket(tr(lang, "arguments")), entry.arg[1]>>)>>
     ELSE <<>>) \o
    <<fail_line(entry.key)>>

RECURSIVE stubs(_, _, _)
stubs(lang, seen, tail) ==
    IF seen = <<>> THEN <<>>
    ELSE (stub(lang, Head(seen)) \o tail) \o stubs(lang, Tail(seen), tail)

\* print(s): the lines it adds to the standard output
print(s) == split(s, NL)

\* What the run prints when the resource exists.
missing_report(fn, lang, seen, kw) ==
    LET missing == missing_steps(seen, kw)
    IN  IF missing = <<>> THEN <<>>
        ELSE print(<<"\n","M","i","s","s","i","n","g"," ","k","e","y","w","o","r","d","s"," ","f","o","r",":"," ">> \o fn \o <<"\n">>)
             \o write_lines(stubs(lang, missing, <<>>))
             \o print(<<"\n">>)

\* The lines written to a resource file that did not exist.
new_resource(lang, seen, now) ==
    write_lines(language_header(lang) \o
                <<Txt(tr(lang, "settings_section")),
                  Fld(<<tr(lang, "documentation"), <<"G","e","n","e","r","a","t","e","d"," ","b","y">>, generated_by(now)>>),
                  Fld(<<tr(lang, "library"), <<"C","o","l","l","e","c","t","i","o","n","s">>>>),
                  Txt(<<"\n">> \o tr(lang, "keywords_section"))>> \o
                stubs(lang, seen, <<Txt(<<>>)>>))

\* A reconciler that appends the stubs of the missing steps to the file.
existing_resource_appending(files, fn, ctx) ==
    [files   |-> [files EXCEPT ![fn] =
                     File(@.lines \o
                          write_lines(stubs(ctx.language,
                                            missing_steps(ctx.seen_steps,
                                                          read_keywords_from_resource(
                                                              files[fn], ctx.language)),
                                            <<Txt(<<>>)>>)))],
     printed |-> <<>>,
     ticks   |-> 0,
     branch  |-> "existing"]

\* generate_robot_script_resource when the file at fn exists: the file is
\* read and left as it is, and the steps without a keyword are printed.
existing_resource(files, fn, ctx) ==
    [files   |-> files,
     printed |-> missing_report(fn, ctx.language, ctx.seen_steps,
                                read_keywords_from_resource(files[fn], ctx.language)),
     ticks   |-> 0,
     branch  |-> "existing"]

\* generate_robot_script_resource on the file system files: the files it
\* leaves, the lines it prints, how often it read the clock and the branch
\* it took.
generate_robot_script_resource(files, fn, ctx, now) ==
    IF files[fn].exists
    THEN existing_resource(files, fn, ctx)
    ELSE [files   |-> [files EXCEPT ![fn] = File(new_resource(ctx.language, ctx.seen_steps, now))],
          printed |-> <<>>,
          ticks   |-> 1,
          branch  |-> "new"]

\* -------------------------------------------------------- script emitter

script_lines(ctx, feature_name, now) ==
    write_lines(language_header(ctx.language) \o
                <<Txt(tr(ctx.language, "settings_section"))>> \o
                ctx.settings_lines \o
                <<Fld(<<tr(ctx.language, "resource"),
                        <<".","/">> \o step_definitions_resource_name(feature_name)>>),
                  Fld(<<tr(ctx.language, "metadata"), <<"F","e","a","t","u","r","e">>, feature_name>>),
                  Fld(<<tr(ctx.language, "metadata"), <<"G","e","n","e","r","a","t","e","d"," ","b","y">>, generated_by(now)>>),
                  Txt(<<>>),
                  Txt(tr(ctx.language, "testcases_section"))>> \o
                ctx.test_cases_lines \o
                <<Txt(<<>>)>> \o
                (IF ctx.keywords_lines # <<>>
                 THEN (<<Txt(tr(ctx.language, "keywords_section"))>> \o ctx.keywords_lines)
                      \o <<Txt(<<>>)>>
                 ELSE <<>>))

\* generate_robot_script(path, feature_name) on the file system files: the
\* script is written, then the resource is created or reconciled.
generate_robot_script(files, path, feature_name, ctx, now) ==
    [generate_robot_script_resource(
         [files EXCEPT ![os_path_join(path, script_name(feature_name))] =
                           File(script_lines(ctx, feature_name, now))],
         os_path_join(path, step_definitions_resource_name(feature_name)),
         ctx, now + 1)
     EXCEPT !.ticks = @ + 1]

\* ------------------------------------------------------ process_gherkin

\* The directory of the features and the output directory of a run.
BaseDir == <<"/","i","n">>
OutputDir == <<"/","o","u","t">>

\* The directory the artifacts of a feature file are written to.
output_path(gherkin_filename, basedir, output) ==
    LET feature_base == os_path_dirname(gherkin_filename)
        feature_sub  == IF startswith(feature_base, basedir)
                        THEN From(feature_base, Len(basedir) + 2)
                        ELSE feature_base
    IN  os_path_join(output, feature_sub)

\* The globals as process_gherkin resets them before the walk.
reset_globals(ctx) ==
    [ctx EXCEPT !.settings_lines = <<>>, !.test_cases_lines = <<>>,
                !.keywords_lines = <<>>, !.seen_steps = <<>>]

\* A process_gherkin that writes what the walk has produced even if the
\* walk raised.
emit_partial(file, ctx, files, now) ==
    generate_robot_script(files, output_path(file.filename, BaseDir, OutputDir),
                          file.gherkin[1].feature.name, ctx, now)
    @@ [ctx |-> ctx]

\* The part of process_gherkin after the walk of the feature: nothing is
\* written if the walk raised.
emit(file, ctx, files, now) ==
    IF ctx.error # ""
    THEN [files |-> files, printed |-> <<>>, ticks |-> 0, branch |-> "none", ctx |-> ctx]
    ELSE generate_robot_script(files, output_path(file.filename, BaseDir, OutputDir),
                               file.gherkin[1].feature.name, ctx, now)
         @@ [ctx |-> ctx]

\* process_gherkin(gherkin_filename, basedir, output) on the globals ctx and
\* the file system files, with the clock at now: the globals and the files
\* it leaves, what it prints after its heading, the exception that ended it
\* ("" if none) and how often it read the clock.
translate(file, ctx, files, now) ==
    IF file.gherkin = None
    THEN [files |-> files, printed |-> <<>>, ticks |-> 0, branch |-> "none",
          ctx |-> raise(ctx, "RuntimeError")]
    ELSE IF "feature" \notin DOMAIN file.gherkin[1]
    THEN [files |-> files, printed |-> <<>>, ticks |-> 0, branch |-> "none",
          ctx |-> raise(reset_globals(ctx), "KeyError")]
    ELSE emit(file, process_feature(reset_globals(ctx), file.gherkin[1].feature), files, now)

\* ------------------------------------------------------------ inputs
\* The parsed feature files a run may be given, as the Gherkin parser
\* hands them to process_gherkin.

Step(keyword, text) == [keyword |-> keyword, text |-> text]
Row(values) == [cells |-> [i \in 1..Len(values) |-> [value |-> values[i]]]]
Tag(name) == [name |-> name]
Scenario(keyword, name, tags, steps, examples) ==
    [scenario |-> [keyword |-> keyword, name |-> name, tags |-> tags,
                   steps |-> steps, examples |-> examples]]
Examples(name, line, tags, header, body) ==
    [name |-> name, location |-> [line |-> line], tags |-> tags,
     tableHeader |-> Row(header), tableBody |-> body]
Parsed(filename, feature) == [filename |-> filename, gherkin |-> Some([feature |-> feature])]

\* One scenario of two steps.
LoginFeature ==
    Parsed(<<"/","i","n","/","l","o","g","i","n",".","f","e","a","t","u","r","e">>,
        [name |-> <<"L","o","g","i","n">>, language |-> <<"e","n">>, tags |-> <<>>,
         children |-> <<Scenario(<<"S","c","e","n","a","r","i","o">>, <<"S","i","g","n"," ","i","n">>, <<>>,
                            <<Step(<<"G","i","v","e","n"," ">>, <<"a"," ","u","s","e","r"," ","e","x","i","s","t","s">>),
                              Step(<<"W","h","e","n"," ">>, <<"t","h","e"," ","u","s","e","r"," ","l","o","g","s"," ","i","n">>)>>, <<>>)>>])

\* A second feature of the same name, so of the same two artifacts.
AliceFeature ==
    Parsed(<<"/","i","n","/","a","l","i","c","e",".","f","e","a","t","u","r","e">>,
        [name |-> <<"L","o","g","i","n">>, language |-> <<"e","n">>, tags |-> <<Tag(<<"@","s","m","o","k","e">>)>>,
         description |-> <<" "," ","U","s","e","r","s"," ","l","o","g"," ","i","n","\n"," "," ","a","n","d"," ","o","u","t">>,
         children |-> <<Scenario(<<"S","c","e","n","a","r","i","o">>, <<"A","l","i","c","e">>, <<Tag(<<"@","a","l","i","c","e">>)>>,
                            <<Step(<<"G","i","v","e","n"," ">>, <<"u","s","e","r"," ","A","l","i","c","e"," ","l","o","g","s"," ","i","n">>),
                              Step(<<"A","n","d"," ">>, <<"u","s","e","r"," ","A","l","i","c","e"," ","l","o","g","s"," ","o","u","t">>),
                              Step(<<"*"," ">>, <<"u","s","e","r"," ","l","o","g","s"," ","i","n">>),
                              Step(<<"W","h","e","n"," ">>, <<"u","s","e","r"," ","l","o","g","s"," ","i","n"," ","n","o","w">>),
                              Step(<<"B","u","t"," ">>, <<"u","s","e","r"," ","B","o","b"," ","l","o","g","s"," ","i","n"," ","t","w","i","c","e">>),
                              Step(<<"T","h","e","n"," ">>, <<"u","s","e","r"," ","A","l","i","c","e"," ","l","o","g","s"," ","i","n">>)>>, <<>>)>>])

AddSteps == <<Step(<<"G","i","v","e","n"," ">>, <<"t","h","e"," ","v","a","l","u","e"," ","i","s"," ","<","a","m","o","u","n","t",">">>), Step(<<"W","h","e","n"," ">>, <<"I"," ","a","d","d"," ","<","n",">">>)>>

\* A background and an outline of two examples blocks, of 3 and 2 rows.
CalcFeature ==
    Parsed(<<"/","i","n","/","s","u","b","/","c","a","l","c",".","f","e","a","t","u","r","e">>,
        [name |-> <<"C","a","l","c">>, language |-> <<"e","n">>, tags |-> <<>>,
         children |->
            <<[background |-> [name |-> <<>>, steps |-> <<Step(<<"G","i","v","e","n"," ">>, <<"a"," ","c","a","l","c","u","l","a","t","o","r">>)>>]],
              Scenario(<<"S","c","e","n","a","r","i","o"," ","O","u","t","l","i","n","e">>, <<"A","d","d">>, <<Tag(<<"@","c","a","l","c">>)>>, AddSteps,
                  <<Examples(<<"s","m","a","l","l">>, 9, <<>>, <<<<"a","m","o","u","n","t">>, <<"n">>>>,
                        <<Row(<<<<"1">>, <<"2">>>>), Row(<<<<>>, <<"3">>>>), Row(<<<<"4">>, <<"5">>>>)>>),
                    Examples(<<>>, 15, <<Tag(<<"@","b","i","g">>)>>, <<<<"a","m","o","u","n","t">>, <<"n">>>>,
                        <<Row(<<<<"1","0">>, <<"2","0">>>>), Row(<<<<"3","0">>, <<"4","0">>>>)>>)>>)>>])

\* An outline whose two examples blocks order their columns differently.
SwapFeature ==
    Parsed(<<"/","i","n","/","s","w","a","p",".","f","e","a","t","u","r","e">>,
        [name |-> <<"S","w","a","p">>, language |-> <<"e","n">>, tags |-> <<>>,
         children |->
            <<Scenario(<<"S","c","e","n","a","r","i","o"," ","O","u","t","l","i","n","e">>, <<"A","d","d">>, <<>>, AddSteps,
                  <<Examples(<<"f","i","r","s","t">>, 5, <<>>, <<<<"a","m","o","u","n","t">>, <<"n">>, <<"n","o","t","e">>>>,
                        <<Row(<<<<"1">>, <<"2">>, <<"x">>>>)>>),
                    Examples(<<"s","e","c","o","n","d">>, 9, <<>>, <<<<"n">>, <<"a","m","o","u","n","t">>>>,
                        <<Row(<<<<"3">>, <<"4">>>>)>>)>>)>>])

\* An outline whose examples block has no column for the placeholder n.
MissingColumnFeature ==
    Parsed(<<"/","i","n","/","m","i","s","s","i","n","g",".","f","e","a","t","u","r","e">>,
        [name |-> <<"C","a","l","c">>, language |-> <<"e","n">>, tags |-> <<>>,
         children |->
            <<Scenario(<<"S","c","e","n","a","r","i","o"," ","O","u","t","l","i","n","e">>, <<"A","d","d">>, <<>>, AddSteps,
                  <<Examples(<<"s","h","o","r","t">>, 5, <<>>, <<<<"a","m","o","u","n","t">>>>, <<Row(<<<<"1">>>>)>>)>>)>>])

\* A child that is neither a background nor a scenario.
RuleFeature ==
    Parsed(<<"/","i","n","/","r","u","l","e",".","f","e","a","t","u","r","e">>,
        [name |-> <<"R","u","l","e","s">>, language |-> <<"e","n">>, tags |-> <<>>,
         children |->
            <<Scenario(<<"S","c","e","n","a","r","i","o">>, <<"F","i","r","s","t">>, <<>>, <<Step(<<"G","i","v","e","n"," ">>, <<"a"," ","u","s","e","r"," ","e","x","i","s","t","s">>)>>, <<>>),
              [rule |-> [name |-> <<"a"," ","r","u","l","e">>]]>>])

\* A scenario keyword no language lists.
TemplateFeature ==
    Parsed(<<"/","i","n","/","t","e","m","p","l","a","t","e",".","f","e","a","t","u","r","e">>,
        [name |-> <<"L","o","g","i","n">>, language |-> <<"e","n">>, tags |-> <<>>,
         children |->
            <<Scenario(<<"S","c","e","n","a","r","i","o"," ","T","e","m","p","l","a","t","e">>, <<"T">>, <<>>,
                  <<Step(<<"G","i","v","e","n"," ">>, <<"a"," ","u","s","e","r"," ","e","x","i","s","t","s">>)>>, <<>>)>>])

\* A file the parser yields no document for.
SyntaxErrorFile == [filename |-> <<"/","i","n","/","b","r","o","k","e","n",".","f","e","a","t","u","r","e">>, gherkin |-> None]

\* A Dutch feature with a doc string and a data table.
DutchFeature ==
    Parsed(<<"/","i","n","/","s","u","b","/","n","l",".","f","e","a","t","u","r","e">>,
        [name |-> <<"I","n"," ","L","o","g","g","e","n">>, language |-> <<"n","l">>, tags |-> <<>>,
         children |->
            <<[background |-> [name |-> <<"b","a","s","i","s">>, steps |-> <<Step(<<"G","e","g","e","v","e","n"," ">>, <<"a"," ","u","s","e","r"," ","e","x","i","s","t","s">>)>>]],
              Scenario(<<"V","o","o","r","b","e","e","l","d">>, <<"T","a","b","e","l">>, <<>>,
                  <<[keyword |-> <<"G","e","g","e","v","e","n"," ">>, text |-> <<"t","h","e"," ","t","a","b","l","e">>,
                     dataTable |-> [rows |-> <<Row(<<<<"B","S","N">>, <<"N","A","M","E">>>>), Row(<<<<"1">>, <<"J","a","n">>>>),
                                               Row(<<<<"2">>, <<"P","i","e","t">>>>)>>]],
                    [keyword |-> <<"A","l","s"," ">>, text |-> <<"t","h","e"," ","t","e","x","t">>,
                     docString |-> [content |-> <<"o","n","e","\n","\n","t","h","r","e","e">>]],
                    Step(<<"E","n"," ">>, <<"t","h","e"," ","t","a","b","l","e">>),
                    [keyword |-> <<"D","a","n"," ">>, text |-> <<"t","h","e"," ","t","e","x","t">>,
                     dataTable |-> [rows |-> <<Row(<<<<"K">>>>)>>]]>>, <<>>)>>])

\* A feature tree without a language.
NoLanguageFeature ==
    Parsed(<<"/","i","n","/","p","l","a","i","n",".","f","e","a","t","u","r","e">>,
        [name |-> <<"P","l","a","i","n">>, tags |-> <<>>,
         children |-> <<Scenario(<<"S","c","e","n","a","r","i","o">>, <<"S","i","g","n"," ","i","n">>, <<>>,
                            <<Step(<<"G","i","v","e","n"," ">>, <<"a"," ","u","s","e","r"," ","e","x","i","s","t","s">>),
                              Step(<<"G","e","g","e","v","e","n"," ">>, <<"t","h","e"," ","u","s","e","r"," ","l","o","g","s"," ","i","n">>)>>, <<>>)>>])

FeatureFiles ==
    {LoginFeature, AliceFeature, CalcFeature, SwapFeature, MissingColumnFeature, RuleFeature,
     TemplateFeature, SyntaxErrorFile, DutchFeature, NoLanguageFeature}

\* The features of the files that hold one.
Features == {f.gherkin[1].feature : f \in {g \in FeatureFiles : g.gherkin # None}}

script_path(file) ==
    os_path_join(output_path(file.filename, BaseDir, OutputDir),
                 script_name(file.gherkin[1].feature.name))

resource_path(file) ==
    os_path_join(output_path(file.filename, BaseDir, OutputDir),
                 step_definitions_resource_name(file.gherkin[1].feature.name))

Paths == UNION {{script_path(f), resource_path(f)} : f \in {g \in FeatureFiles : g.gherkin # None}}

\* Resource files written by hand, found at the path of the resource of
\* the feature Login before the first run.
HandWritten(keyword) ==
    File(<<<<"*","*","*"," ","S","e","t","t","i","n","g","s"," ","*","*","*">>, <<"L","i","b","r","a","r","y"," "," "," "," ","C","o","l","l","e","c","t","i","o","n","s">>, <<>>,
           <<"*","*","*"," ","K","e","y","w","o","r","d","s"," ","*","*","*">>, keyword, <<" "," "," "," ","L","o","g"," "," "," "," ","i","m","p","l","e","m","e","n","t","e","d">>>>)

LoginResource == os_path_join(OutputDir, step_definitions_resource_name(<<"L","o","g","i","n">>))

InitialResources ==
    {NoFile,
     HandWritten(<<"G","i","v","e","n"," ","u","s","e","r"," ","$","{","n","a","m","e","}"," ","l","o","g","s"," ","i","n">>),
     HandWritten(<<"u","s","e","r"," ","$","{","n","a","m","e","}"," ","l","o","g","s"," ","i","n">>),
     HandWritten(<<"u","s","e","r"," ","l","o","g","s"," ","i","n">>)}

\* ------------------------------------------------------------ state

VARIABLES
    fs,                    \* the file system below the output directory
    stdout,                \* the lines the running process has printed
    clock,                 \* the number of calls of datetime.now() so far
    pc,                    \* "idle", "running", "done" or "failed"
    queue,                 \* the feature files process_directory has yet to visit
    emitted,               \* the feature files of this run whose artifacts were written
    branch,                \* what the last process_gherkin did with the resource:
                           \* "new" (created), "existing" (reconciled), "none"
    settings_lines, test_cases_lines, keywords_lines, seen_steps,
    background_available,
    language,              \* the active language of the translation module
    error                  \* the exception that ended the process, "" if none

vars == <<fs, stdout, clock, pc, queue, emitted, branch, settings_lines, test_cases_lines,
          keywords_lines, seen_steps, background_available, language, error>>

globals ==
    [settings_lines |-> settings_lines, test_cases_lines |-> test_cases_lines,
     keywords_lines |-> keywords_lines, seen_steps |-> seen_steps,
     background_available |-> background_available, language |-> language,
     error |-> error]

\* The globals of a process that has just imported the module.  None, the
\* first value of background_available, is read for its truth only.
module_globals ==
    /\ settings_lines' = <<>>
    /\ test_cases_lines' = <<>>
    /\ keywords_lines' = <<>>
    /\ seen_steps' = <<>>
    /\ background_available' = FALSE
    /\ language' = DefaultLanguage
    /\ error' = ""

Init ==
    /\ \E r \in InitialResources : fs = [p \in Paths |-> IF p = LoginResource THEN r ELSE NoFile]
    /\ stdout = <<>>
    /\ clock = 0
    /\ pc = "idle"
    /\ queue = <<>>
    /\ emitted = <<>>
    /\ branch = "none"
    /\ settings_lines = <<>>
    /\ test_cases_lines = <<>>
    /\ keywords_lines = <<>>
    /\ seen_steps = <<>>
    /\ background_available = FALSE
    /\ language = DefaultLanguage
    /\ error = ""

\* The lists of feature files get_feature_filenames may find.
FileLists == UNION {[1..n -> FeatureFiles] : n \in 1..MaxFiles}

\* main(): a new process is started on a directory of feature files.
main ==
    /\ pc # "running"
    /\ \E l \in FileLists :
          /\ clock + 2 * Len(l) <= MaxClock
          /\ queue' = l
    /\ pc' = "running"
    /\ stdout' = <<>>
    /\ emitted' = <<>>
    /\ branch' = "none"
    /\ module_globals
    /\ UNCHANGED <<fs, clock>>

\* A loop that catches the exception of a file and goes on.
after_file_caught(exception) == "running"

\* The process after process_gherkin has returned or raised: nothing in
\* process_directory or main catches an exception.
after_file(exception) == IF exception # "" THEN "failed" ELSE "running"

\* One turn of the loop of process_directory: process_gherkin on the next
\* feature file.  An exception ends the process.
process_gherkin ==
    /\ pc = "running"
    /\ queue # <<>>
    /\ \E out \in {translate(Head(queue), globals, fs, clock)} :
           /\ fs' = out.files
           /\ stdout' = stdout \o print(<<"P","r","o","c","e","s","s","i","n","g"," ","g","h","e","r","k","i","n",":"," ">> \o Head(queue).filename)
                               \o out.printed
           /\ clock' = clock + out.ticks
           /\ branch' = out.branch
           /\ settings_lines' = out.ctx.settings_lines
           /\ test_cases_lines' = out.ctx.test_cases_lines
           /\ keywords_lines' = out.ctx.keywords_lines
           /\ seen_steps' = out.ctx.seen_steps
           /\ background_available' = out.ctx.background_available
           /\ language' = out.ctx.language
           /\ error' = out.ctx.error
           /\ pc' = after_file(out.ctx.error)
           /\ emitted' = IF out.ctx.error # "" THEN emitted ELSE Append(emitted, Head(queue))
    /\ queue' = Tail(queue)

\* process_directory has visited every file: the process ends.
exit ==
    /\ pc = "running"
    /\ queue = <<>>
    /\ pc' = "done"
    /\ UNCHANGED <<fs, stdout, clock, queue, emitted, branch, settings_lines, test_cases_lines,
                   keywords_lines, seen_steps, background_available, language, error>>

Next == main \/ process_gherkin \/ exit

Spec == Init /\ [][Next]_vars

\* ------------------------------------------------------ observations

Last(s) == s[Len(s)]

\* The last process_gherkin of the run returned: the globals are those of
\* the feature of the last file of emitted.
Translated == error = "" /\ emitted # <<>>
LastFile == Last(emitted)
LastFeature == LastFile.gherkin[1].feature

\* The resource of the last file was found and reconciled, or created.
Reconciled == Translated /\ branch = "existing"
Created == Translated /\ branch = "new"

ParsedFiles == {f \in FeatureFiles : f.gherkin # None}
ResourcePaths == {resource_path(f) : f \in ParsedFiles}

IsHeading(line) == startswith(line, <<"P","r","o","c","e","s","s","i","n","g"," ","g","h","e","r","k","i","n",":"," ">>)

\* What the last process_gherkin printed after its heading.
LastReport ==
    From(stdout,
         1 + (CHOOSE i \in 1..Len(stdout) :
                  IsHeading(stdout[i]) /\ \A j \in (i + 1)..Len(stdout) : ~IsHeading(stdout[j])))

\* The report lists the step text k as missing: it holds the body of its stub.
ReportedMissing(k) ==
    \E i \in 1..Len(LastReport) :
        LastReport[i] = (<<" "," "," "," ","F","a","i","l"," "," "," "," ","K","e","y","w","o","r","d"," ","\"">> \o k) \o <<"\""," ","N","o","t"," ","I","m","p","l","e","m","e","n","t","e","d"," ","Y","e","t">>

\* The report lists a step of the feature as missing, under its registry key.
StepMissing(step) ==
    ReportedMissing(resource_keyword_of(step, step_text(step), step_keyword(language, step)))

\* The keywords of the resource of the last file.
ResourceKeywords ==
    LET kw == read_keywords_from_resource(fs[resource_path(LastFile)], language)
    IN  [i \in 1..Len(kw) |-> kw[i].keyword]

\* keyword starts with a placeholder ${identifier} of n characters.
PlaceholderLength(keyword) ==
    IF startswith(keyword, <<"$","{">>)
           /\ run_length(From(keyword, 3), WordChars) > 0
           /\ Len(keyword) >= run_length(From(keyword, 3), WordChars) + 3
           /\ keyword[run_length(From(keyword, 3), WordChars) + 3] = "}"
    THEN run_length(From(keyword, 3), WordChars) + 3
    ELSE 0

\* text is keyword with a text put for each of its placeholders (whole), or
\* begins with such a text (~whole).
RECURSIVE Instance(_, _, _)
Instance(text, keyword, whole) ==
    IF keyword = <<>> THEN (~whole \/ text = <<>>)
    ELSE IF PlaceholderLength(keyword) > 0
    THEN \E k \in 0..Len(text) :
             Instance(From(text, k + 1), From(keyword, PlaceholderLength(keyword) + 1), whole)
    ELSE text # <<>> /\ Head(text) = Head(keyword) /\ Instance(Tail(text), Tail(keyword), whole)

\* Outside its placeholders keyword holds letters, digits, underscores and
\* spaces only: no character that a pattern reads as an operator.
RECURSIVE PlainKeyword(_)
PlainKeyword(keyword) ==
    IF keyword = <<>> THEN TRUE
    ELSE IF PlaceholderLength(keyword) > 0
    THEN PlainKeyword(From(keyword, PlaceholderLength(keyword) + 1))
    ELSE Head(keyword) \in WordChars \cup {" "} /\ PlainKeyword(Tail(keyword))

HasPlaceholder(keyword) == \E i \in 1..Len(keyword) : PlaceholderLength(From(keyword, i)) > 0

\* ------------------------------------------------------------ claims

\* C1: a resource file that exists is never modified: whatever step the
\* program takes, whatever the registry holds, the file at the path of a
\* resource keeps its content if it existed before the step, so that a
\* resource is written only by the step that found it absent.
C1_NonDestructive ==
    [][\A p \in ResourcePaths : fs[p].exists => fs'[p] = fs[p]]_vars

\* A feature was reconciled against the resource written by hand, steps of
\* it were reported as missing, and the file is as it was.
C1_Witness ==
    /\ Reconciled
    /\ LastReport # <<>>
    /\ resource_path(LastFile) = LoginResource
    /\ fs[LoginResource] = HandWritten(<<"u","s","e","r"," ","$","{","n","a","m","e","}"," ","l","o","g","s"," ","i","n">>)

AliceLogsIn == Step(<<"G","i","v","e","n"," ">>, <<"u","s","e","r"," ","A","l","i","c","e"," ","l","o","g","s"," ","i","n">>)
AliceLogsOut == Step(<<"A","n","d"," ">>, <<"u","s","e","r"," ","A","l","i","c","e"," ","l","o","g","s"," ","o","u","t">>)

AfterHeader(lines, header) ==
    From(lines, 1 + (CHOOSE i \in 1..Len(lines) :
                         lines[i] = header /\ \A j \in 1..(i - 1) : lines[j] # header))

\* The text of the stub of a registry entry, and the blank line after it.
ExpectedStub(entry) ==
    <<entry.key>> \o
    (IF entry.arg # None
     THEN <<((<<" "," "," "," ","[">> \o tr(language, "arguments")) \o <<"]"," "," "," "," ">>) \o entry.arg[1]>>
     ELSE <<>>) \o
    <<(<<" "," "," "," ","F","a","i","l"," "," "," "," ","K","e","y","w","o","r","d"," ","\"">> \o entry.key) \o <<"\""," ","N","o","t"," ","I","m","p","l","e","m","e","n","t","e","d"," ","Y","e","t">>, <<>>>>

RECURSIVE ExpectedStubs(_)
ExpectedStubs(seen) ==
    IF seen = <<>> THEN <<>> ELSE ExpectedStub(Head(seen)) \o ExpectedStubs(Tail(seen))

\* C3: a resource that was absent is created with one stub per registry
\* entry, in the order of the registry: the text of the entry, an arguments
\* line if and only if the entry has an argument variable, and the body
\* Fail 'Keyword "<text>" Not Implemented Yet'; read back, its keywords are
\* the keys of the registry, two for the feature of two steps.
C3_CreateResource ==
    Created =>
        /\ AfterHeader(fs[resource_path(LastFile)].lines, tr(language, "keywords_section"))
               = ExpectedStubs(seen_steps)
        /\ ResourceKeywords = [i \in 1..Len(seen_steps) |-> seen_steps[i].key]
        /\ (LastFile = LoginFeature =>
                ResourceKeywords = <<<<"a"," ","u","s","e","r"," ","e","x","i","s","t","s">>, <<"t","h","e"," ","u","s","e","r"," ","l","o","g","s"," ","i","n">>>>)

\* A resource was created for a registry that holds entries with and
\* without an argument variable.
C3_Witness ==
    /\ Created
    /\ \E i \in 1..Len(seen_steps) : seen_steps[i].arg # None
    /\ \E i \in 1..Len(seen_steps) : seen_steps[i].arg = None

IsPlain(scenario) ==
    scenario.keyword \in {<<"S","c","e","n","a","r","i","o">>} \cup Range(split(tr(language, "scenario"), ","))

IsOutline(scenario) ==
    /\ ~IsPlain(scenario)
    /\ scenario.keyword \in
           {<<"S","c","e","n","a","r","i","o"," ","O","u","t","l","i","n","e">>} \cup Range(split(tr(language, "scenariooutline"), ","))

Scenarios(feature) ==
    {feature.children[i].scenario :
        i \in {j \in 1..Len(feature.children) : "scenario" \in DOMAIN feature.children[j]}}

Outlines(feature) == {s \in Scenarios(feature) : IsOutline(s)}

\* The names of the test cases of a section: its lines that are a text.
TestCaseNames(lines) ==
    {lines[i].fields[1] : i \in {j \in 1..Len(lines) : ~lines[j].list /\ lines[j].fields[1] # <<>>}}

\* C4 as stated: an outline of k examples blocks adds k named test cases,
\* each with a template reference and the rows of its block, and one keyword.
C4_Original ==
    Translated =>
        \A s \in Outlines(LastFeature) :
            /\ \A e \in Range(s.examples) :
                   test_case_name(s, e) \in TestCaseNames(test_cases_lines)
            /\ Cardinality({i \in 1..Len(keywords_lines) :
                               keywords_lines[i] = Txt(template_name(language, s))}) = 1

\* A placeholder of an outline of the file has no column in an examples block.
MissingPlaceholder(file) ==
    /\ file.gherkin # None
    /\ \E s \in Scenarios(file.gherkin[1].feature) :
           \E e \in Range(s.examples) :
               \E v \in outline_variables(s.steps) : v \notin Range(example_header(e))

\* C5 as stated: a placeholder without a column is a warning: the
\* processing of the file is not stopped and both its artifacts are written.
C5_Original ==
    [][(pc = "running" /\ queue # <<>> /\ MissingPlaceholder(Head(queue)))
       => /\ error' = ""
          /\ emitted' = Append(emitted, Head(queue))
          /\ fs'[script_path(Head(queue))].exists
          /\ fs'[resource_path(Head(queue))].exists]_vars

\* The file fails with a StructuralError: it does not parse, or a child of
\* its feature is no background and no scenario, or a scenario has a keyword
\* the language of the feature does not list.
StructuralError(file) ==
    \/ file.gherkin = None
    \/ \E i \in 1..Len(file.gherkin[1].feature.children) :
           LET child == file.gherkin[1].feature.children[i]
               lang  == IF "language" \in DOMAIN file.gherkin[1].feature
                        THEN file.gherkin[1].feature.language ELSE language
           IN  \/ (DOMAIN child) \cap {"background", "scenario"} = {}
               \/ /\ "background" \notin DOMAIN child
                  /\ "scenario" \in DOMAIN child
                  /\ child.scenario.keyword \notin
                         {<<"S","c","e","n","a","r","i","o">>, <<"S","c","e","n","a","r","i","o"," ","O","u","t","l","i","n","e">>}
                             \cup Range(split(tr(lang, "scenario"), ","))
                             \cup Range(split(tr(lang, "scenariooutline"), ","))

RECURSIVE Rewritten(_)
Rewritten(text) ==
    IF text = <<>> THEN <<>>
    ELSE (IF Head(text) = "<" THEN <<"$","{">> ELSE IF Head(text) = ">" THEN <<"}">> ELSE <<Head(text)>>)
         \o Rewritten(Tail(text))

ChildSteps(child) ==
    IF "background" \in DOMAIN child THEN child.background.steps ELSE child.scenario.steps

\* The steps of a feature in the order add_step renders them.
RECURSIVE AllSteps(_)
AllSteps(children) ==
    IF children = <<>> THEN <<>> ELSE ChildSteps(Head(children)) \o AllSteps(Tail(children))

ExpectedArgument(step) ==
    IF "docString" \in DOMAIN step THEN Some(<<"$","{","D","o","c","S","t","r","i","n","g","}">>)
    ELSE IF "dataTable" \in DOMAIN step THEN Some(<<"@","{","D","a","t","a","T","a","b","l","e","}">>)
    ELSE None

\* The entries of the first steps of each text, in order.
RECURSIVE FirstRegistrations(_, _)
FirstRegistrations(steps, texts) ==
    IF steps = <<>> THEN <<>>
    ELSE IF Rewritten(Head(steps).text) \in texts THEN FirstRegistrations(Tail(steps), texts)
    ELSE <<[key |-> Rewritten(Head(steps).text), arg |-> ExpectedArgument(Head(steps))]>>
         \o FirstRegistrations(Tail(steps), texts \cup {Rewritten(Head(steps).text)})

FreshGlobals ==
    [settings_lines |-> <<>>, test_cases_lines |-> <<>>, keywords_lines |-> <<>>,
     seen_steps |-> <<>>, background_available |-> FALSE, language |-> DefaultLanguage,
     error |-> ""]

\* The clock when the last process_gherkin wrote the script.
ScriptTime == IF branch = "new" THEN clock - 2 ELSE clock - 1

DeclaredArguments(name) ==
    LET i == CHOOSE k \in 1..Len(keywords_lines) : keywords_lines[k] = Txt(name)
        j == CHOOSE k \in (i + 1)..Len(keywords_lines) :
                 /\ keywords_lines[k].list
                 /\ Len(keywords_lines[k].fields) >= 2
                 /\ keywords_lines[k].fields[2] = Bracket(tr(language, "arguments"))
                 /\ \A m \in (i + 1)..(k - 1) : keywords_lines[m].list
    IN  SubSeq(keywords_lines[j].fields, 3, Len(keywords_lines[j].fields))

\* C9 as stated: the keyword of an outline declares the header columns in
\* their order, so that the rows of every examples block of the outline,
\* which follow the header of their block, give a value per argument in the
\* order of the arguments.
C9_Original ==
    Translated =>
        \A s \in Outlines(LastFeature) :
            \A e \in Range(s.examples) :
                DeclaredArguments(template_name(language, s))
                    = [a \in 1..Len(example_header(e)) |-> (<<"$","{">> \o example_header(e)[a]) \o <<"}">>]

\* C10 as stated: against keywords without a placeholder a registry entry
\* is implemented if and only if its text is one of the keywords.
C10_Original ==
    (Reconciled /\ \A k \in Range(ResourceKeywords) : ~HasPlaceholder(k))
    => \A i \in 1..Len(seen_steps) :
           ~ReportedMissing(seen_steps[i].key) <=> seen_steps[i].key \in Range(ResourceKeywords)

\* C11: if the translation of a feature file fails with an exception raised
\* before or during the walk of its tree (no document, an unrecognized
\* child, an unrecognized scenario keyword, an error of the outline
\* expansion), the step that fails leaves every file below the output
\* directory as it was: neither the script nor the resource of the feature
\* is created or modified, since all output follows process_feature.
C11_NoPartialArtifact ==
    [][(pc = "running" /\ queue # <<>> /\ error' # "")
       => \A p \in Paths : fs'[p] = fs[p]]_vars

\* The translation of a feature has failed in the walk while the script
\* and the resource of its name, written for an earlier feature of the
\* run, exist.
C11_Witness ==
    /\ pc = "failed"
    /\ error = "RuntimeError"
    /\ Last(stdout) = <<"P","r","o","c","e","s","s","i","n","g"," ","g","h","e","r","k","i","n",":"," ">> \o TemplateFeature.filename
    /\ emitted = <<LoginFeature>>
    /\ script_path(TemplateFeature) = script_path(LoginFeature)
    /\ fs[script_path(TemplateFeature)].exists
    /\ fs[resource_path(TemplateFeature)].exists

====
